---- MODULE Spec2Model ----
(***************************************************************************)
(* The event planner's action handlers (src/src/actions/index.ts) over the *)
(* three tables of src/db/tables.ts, at store-statement granularity: every *)
(* awaited select / insert / update / delete is one atomic step of the     *)
(* request that issued it, and the synchronous code between two awaits     *)
(* runs with the step that ends it.                                        *)
(*                                                                         *)
(* JavaScript values: a value is a set, {} for undefined (NULL in a row)   *)
(* and {v} for the value v; an object is a record, a key that was never    *)
(* assigned is a key outside its DOMAIN.                                   *)
(***************************************************************************)
EXTENDS Integers, Sequences, FiniteSets, TLC

VARIABLES
    Events,       \* table Events: id -> row
    EventTasks,   \* table EventTasks: id -> row
    EventGuests,  \* table EventGuests: id -> row
    clock,        \* what new Date() returns
    uuids,        \* how many ids crypto.randomUUID() has produced, per table
    fkEnforced,   \* whether the store enforces the references of tables.ts
    req,          \* the requests in flight: per slot, the handler's position and locals
    calls,        \* requests started so far
    mode          \* the workload: "seq" one request at a time, "conc" overlapping,
                  \* "fresh" the calls that build the seeded store

store == <<Events, EventTasks, EventGuests>>
vars == <<Events, EventTasks, EventGuests, clock, uuids, fkEnforced, req, calls, mode>>

(***************************************************************************)
(* Bounds of the model.                                                    *)
(***************************************************************************)
MaxEvents == 2
MaxTasks == 2
MaxGuests == 2
MaxClock == 1
MaxCalls == 2
MaxOverlap == 2

Procs == {"r1", "r2"}
FirstSlot == "r1"
Users == {"u1", "u2"}
SeedOwner == {"u1"}

EventIdSeq == <<"e1", "e2", "e3", "e4">>
TaskIdSeq == <<"t1", "t2", "t3", "t4">>
GuestIdSeq == <<"g1", "g2", "g3", "g4">>

(***************************************************************************)
(* JavaScript values and operators.                                        *)
(***************************************************************************)
Undefined == {}
Some(v) == {v}
Val(o) == CHOOSE v \in o : TRUE

\* `x ? a : b` and `if (x)` on an optional string: undefined and "" are falsy
Truthy(o) == o # Undefined /\ o # Some("")

\* `a ?? b`
Coalesce(o, d) == IF o = Undefined THEN d ELSE o

\* `{ ...a, ...b }`: every own key of b, undefined values included, overrides a
Spread(a, b) ==
    [k \in DOMAIN a \cup DOMAIN b |-> IF k \in DOMAIN b THEN b[k] ELSE a[k]]

\* the ISO strings the workload uses, and the instant new Date(s) parses each to
DatetimeStrings == {"2026-01-01T10:00:00Z", "2026-01-01T10:00:00.000Z", "2026-02-01T10:00:00Z"}
NewDate(s) ==
    CASE s \in {"2026-01-01T10:00:00Z", "2026-01-01T10:00:00.000Z"} -> 1767261600
      [] s = "2026-02-01T10:00:00Z" -> 1769940000
      [] OTHER -> -1

parseOptionalDate(value) ==
    IF Truthy(value) THEN Some(NewDate(Val(value))) ELSE Undefined

EVENT_STATUSES == {"planning", "confirmed", "done", "cancelled"}
TASK_STATUSES == {"todo", "in-progress", "done"}
TASK_PRIORITIES == {"low", "medium", "high"}
RSVP_STATUSES == {"invited", "going", "maybe", "declined"}

(***************************************************************************)
(* The store: equality-filtered select, insert, update ... set, delete.    *)
(***************************************************************************)
\* db.select().from(T).where(eq(T.id, id)): the rows, at most one
SelectById(table, id) == {table[i] : i \in DOMAIN table \cap {id}}

\* SelectByEvent without its where clause
SelectEveryRow(table, eventId) == {table[i] : i \in DOMAIN table}

\* db.select().from(T).where(eq(T.eventId, eventId))
SelectByEvent(table, eventId) ==
    {table[i] : i \in {j \in DOMAIN table : table[j].eventId = Some(eventId)}}

\* db.insert(T).values(row)
Insert(table, row) == table @@ (Val(row.id) :> row)

\* db.update(T).set(updates).where(eq(T.id, id)): the store's query builder
\* leaves a column alone when the value given for it is undefined
SetColumns(row, updates) ==
    [k \in DOMAIN row |->
        IF k \in DOMAIN updates /\ updates[k] # Undefined THEN updates[k] ELSE row[k]]

Update(table, id, updates) ==
    [i \in DOMAIN table |-> IF i = id THEN SetColumns(table[i], updates) ELSE table[i]]

\* DeleteById without its where clause
DeleteEveryRow(table, id) == [i \in {} |-> table[i]]

\* db.delete(T).where(eq(T.id, id))
DeleteById(table, id) == [i \in DOMAIN table \ {id} |-> table[i]]

\* DeleteByEvent filtering on the id column instead of eventId
DeleteByEventOnId(table, eventId) == DeleteById(table, eventId)

\* db.delete(T).where(eq(T.eventId, eventId))
DeleteByEvent(table, eventId) ==
    [i \in {j \in DOMAIN table : table[j].eventId # Some(eventId)} |-> table[i]]

\* eventId: column.text({ references: () => Events.columns.id })
Referenced(eventId) ==
    \/ \E i \in DOMAIN EventTasks : EventTasks[i].eventId = Some(eventId)
    \/ \E i \in DOMAIN EventGuests : EventGuests[i].eventId = Some(eventId)

(***************************************************************************)
(* Input schemas: what each action accepts, and the defaults it fills in.  *)
(***************************************************************************)
Opt(o, ok) == o = Undefined \/ ok
NonEmpty(o) == o # Undefined /\ Val(o) # ""
IsDatetime(o) == o # Undefined /\ Val(o) \in DatetimeStrings
IsUrl(o) == o # Undefined /\ Val(o) \in {"https://maps.example/x"}
IsEmail(o) == o # Undefined /\ Val(o) \in {"ana@example.com"}

EventFieldKeys ==
    {"title", "description", "startDateTime", "endDateTime", "timeZone",
     "locationName", "locationAddress", "locationMapLink", "status"}

EventFieldsValid(v) ==
    /\ Opt(v.title, NonEmpty(v.title))
    /\ Opt(v.startDateTime, IsDatetime(v.startDateTime))
    /\ Opt(v.endDateTime, IsDatetime(v.endDateTime))
    /\ Opt(v.locationMapLink, IsUrl(v.locationMapLink))
    /\ Opt(v.status, v.status \subseteq EVENT_STATUSES)

createEventInputValid(v) == EventFieldsValid(v) /\ NonEmpty(v.title)

\* the schema without its refine
AnyFields(v) == TRUE

\* the refine of updateEvent's schema
AtLeastOneField(v) == \E k \in EventFieldKeys : v[k] # Undefined

updateEventInputValid(v) ==
    /\ v.id # Undefined
    /\ EventFieldsValid(v)
    /\ AtLeastOneField(v)

upsertEventTaskInputValid(v) ==
    /\ v.eventId # Undefined
    /\ NonEmpty(v.title)
    /\ Opt(v.dueDate, IsDatetime(v.dueDate))
    /\ Opt(v.status, v.status \subseteq TASK_STATUSES)
    /\ Opt(v.priority, v.priority \subseteq TASK_PRIORITIES)

upsertEventGuestInputValid(v) ==
    /\ v.eventId # Undefined
    /\ NonEmpty(v.name)
    /\ Opt(v.email, IsEmail(v.email))
    /\ Opt(v.rsvpStatus, v.rsvpStatus \subseteq RSVP_STATUSES)
    /\ Opt(v.invitedAt, IsDatetime(v.invitedAt))
    /\ Opt(v.respondedAt, IsDatetime(v.respondedAt))

InputValid(op, v) ==
    CASE op = "createEvent" -> createEventInputValid(v)
      [] op = "updateEvent" -> updateEventInputValid(v)
      [] op = "upsertEventTask" -> upsertEventTaskInputValid(v)
      [] op = "upsertEventGuest" -> upsertEventGuestInputValid(v)
      [] op = "listMyEvents" -> Opt(v.status, v.status \subseteq EVENT_STATUSES)
      [] OTHER -> v.id # Undefined

\* z.enum(...).default(...): the parsed input carries the default
ParseInput(op, v) ==
    CASE op = "createEvent" -> [v EXCEPT !.status = Coalesce(@, Some("planning"))]
      [] op = "upsertEventTask" -> [v EXCEPT !.status = Coalesce(@, Some("todo"))]
      [] OTHER -> v

(***************************************************************************)
(* The workload: the calls a client may make.  Ids are drawn from the ids  *)
(* handed out so far (rows that exist and rows already deleted).           *)
(***************************************************************************)
Ops ==
    {"createEvent", "updateEvent", "deleteEvent", "listMyEvents", "getEventWithDetails",
     "upsertEventTask", "deleteEventTask", "upsertEventGuest", "deleteEventGuest"}

\* context.locals.user: a signed-in user's id, or undefined
Actors == {Some(u) : u \in Users} \cup {Undefined}

\* who calls: anyone, or in the overlapping workload the owner of the seeded event
Callers == IF mode = "conc" THEN {SeedOwner} ELSE Actors

KnownEventIds == {EventIdSeq[i] : i \in 1..uuids.event}
KnownTaskIds == {TaskIdSeq[i] : i \in 1..uuids.task}
KnownGuestIds == {GuestIdSeq[i] : i \in 1..uuids.guest}

NoEventFields == [k \in EventFieldKeys |-> Undefined]

Launch == [NoEventFields EXCEPT !.title = Some("Launch")]

Party ==
    [NoEventFields EXCEPT
        !.title = Some("Party"), !.description = Some("at noon"),
        !.startDateTime = Some("2026-01-01T10:00:00Z"),
        !.endDateTime = Some("2026-02-01T10:00:00Z"),
        !.timeZone = Some("Europe/Paris"), !.locationName = Some("Hall"),
        !.locationAddress = Some("1 Main St"),
        !.locationMapLink = Some("https://maps.example/x"),
        !.status = Some("confirmed")]

EventPatches ==
    { NoEventFields,
      [NoEventFields EXCEPT !.title = Some("Finale"), !.status = Some("done")],
      [NoEventFields EXCEPT
          !.title = Some("Gala"), !.description = Some(""),
          !.startDateTime = Some("2026-02-01T10:00:00Z")] }

TaskFieldKeys == {"title", "description", "dueDate", "status", "priority", "userId"}
NoTaskFields == [k \in TaskFieldKeys |-> Undefined]
TaskForms ==
    { [NoTaskFields EXCEPT !.title = Some("Book venue")],
      [NoTaskFields EXCEPT
          !.title = Some("Send invites"), !.description = Some("all"),
          !.dueDate = Some("2026-01-01T10:00:00Z"), !.status = Some("done"),
          !.priority = Some("high"), !.userId = Some("u2")] }

GuestFieldKeys == {"name", "email", "phone", "rsvpStatus", "notes", "invitedAt", "respondedAt"}
NoGuestFields == [k \in GuestFieldKeys |-> Undefined]
GuestForms ==
    { [NoGuestFields EXCEPT
          !.name = Some("Ana"), !.email = Some("ana@example.com"),
          !.rsvpStatus = Some("invited")],
      [NoGuestFields EXCEPT !.name = Some("Ana"), !.rsvpStatus = Some("going")] }
\* { id, rsvpStatus: "going" } and nothing else
RsvpOnly == [NoGuestFields EXCEPT !.rsvpStatus = Some("going")]

WithKeys(fields, keys) == Spread(fields, keys)

RawInputs(op) ==
    CASE op = "createEvent" -> {Launch, Party}
      [] op = "updateEvent" ->
            {WithKeys(f, [id |-> Some(i)]) : f \in EventPatches, i \in KnownEventIds}
      [] op = "listMyEvents" -> {[status |-> Undefined], [status |-> Some("planning")]}
      [] op = "upsertEventTask" ->
            {WithKeys(f, [id |-> i, eventId |-> Some(e)]) :
                f \in TaskForms,
                i \in {Undefined} \cup {Some(t) : t \in KnownTaskIds},
                e \in KnownEventIds}
      [] op = "upsertEventGuest" ->
            {WithKeys(f, [id |-> i, eventId |-> Some(e)]) :
                f \in GuestForms,
                i \in {Undefined} \cup {Some(g) : g \in KnownGuestIds},
                e \in KnownEventIds}
            \cup {WithKeys(RsvpOnly, [id |-> Some(g), eventId |-> Undefined]) :
                    g \in KnownGuestIds}
      [] op = "deleteEventTask" -> {[id |-> Some(t)] : t \in KnownTaskIds}
      [] op = "deleteEventGuest" -> {[id |-> Some(g)] : g \in KnownGuestIds}
      [] OTHER -> {[id |-> Some(e)] : e \in KnownEventIds}

(***************************************************************************)
(* A request: the handler's position (pc), its locals, and its response.   *)
(***************************************************************************)
NoObject == <<>>

IdleReq ==
    [pc |-> "idle", op |-> "none", user |-> Undefined, raw |-> NoObject, input |-> NoObject,
     event |-> Undefined, existing |-> Undefined, now |-> 0, updates |-> NoObject,
     row |-> NoObject, code |-> "none", data |-> NoObject, stmts |-> 0]

\* the response leaves the handler: its locals are gone
Respond(r, code, data) ==
    [r EXCEPT !.pc = "done", !.code = code, !.data = data,
              !.event = Undefined, !.existing = Undefined, !.now = 0,
              !.updates = NoObject, !.row = NoObject]

Executed(r) == [r EXCEPT !.stmts = @ + 1]

\* requireUser that lets a request without a user through
requireAnyone(user) == TRUE

\* requireUser: whether a user is attached to the context
requireUser(user) == user # Undefined

IsUpsert(op) == op \in {"upsertEventTask", "upsertEventGuest"}
IsChildDelete(op) == op \in {"deleteEventTask", "deleteEventGuest"}
ChildKind(op) == IF op \in {"upsertEventTask", "deleteEventTask"} THEN "task" ELSE "guest"

\* the upserts that will still draw an id for a new row of `kind`
PendingCreates(kind) ==
    Cardinality({q \in Procs :
        /\ IsUpsert(req[q].op) /\ ChildKind(req[q].op) = kind
        /\ req[q].pc \in {"guard", "stamp"}
        /\ ~Truthy(req[q].input.id)})

\* the workload stays within the ids the model has
WithinIds(op, input) ==
    CASE op = "createEvent" -> uuids.event < MaxEvents
      [] op = "upsertEventTask" ->
            Truthy(input.id) \/ uuids.task + PendingCreates("task") < MaxTasks
      [] op = "upsertEventGuest" ->
            Truthy(input.id) \/ uuids.guest + PendingCreates("guest") < MaxGuests
      [] OTHER -> TRUE

\* NewEvent that leaves the description out
NewEventNoDescription(user, input, id, now) ==
    [id |-> Some(id),
     ownerUserId |-> user,
     title |-> input.title,
     description |-> Undefined,
     startDateTime |-> parseOptionalDate(input.startDateTime),
     endDateTime |-> parseOptionalDate(input.endDateTime),
     timeZone |-> input.timeZone,
     locationName |-> input.locationName,
     locationAddress |-> input.locationAddress,
     locationMapLink |-> input.locationMapLink,
     status |-> Coalesce(input.status, Some("planning")),
     createdAt |-> Some(now),
     updatedAt |-> Some(now)]

\* createEvent's record, built before its insert is awaited
NewEvent(user, input, id, now) ==
    [id |-> Some(id),
     ownerUserId |-> user,
     title |-> input.title,
     description |-> input.description,
     startDateTime |-> parseOptionalDate(input.startDateTime),
     endDateTime |-> parseOptionalDate(input.endDateTime),
     timeZone |-> input.timeZone,
     locationName |-> input.locationName,
     locationAddress |-> input.locationAddress,
     locationMapLink |-> input.locationMapLink,
     status |-> Coalesce(input.status, Some("planning")),
     createdAt |-> Some(now),
     updatedAt |-> Some(now)]

\* the handler from its call to its first await: the schema, requireUser, and for
\* createEvent the record to insert
Begin(op, user, raw) ==
    LET r == [IdleReq EXCEPT !.op = op, !.user = user, !.raw = raw, !.input = raw] IN
    IF ~InputValid(op, raw) THEN Respond(r, "BAD_REQUEST", NoObject)
    ELSE IF ~requireUser(user) THEN Respond(r, "UNAUTHORIZED", NoObject)
    ELSE LET input == ParseInput(op, raw)
             s == [r EXCEPT !.input = input]
         IN CASE op = "createEvent" ->
                    [s EXCEPT !.pc = "insertEvent", !.now = clock,
                              !.row = NewEvent(user, input, EventIdSeq[uuids.event + 1], clock)]
              [] op = "listMyEvents" -> [s EXCEPT !.pc = "list"]
              [] IsChildDelete(op) -> [s EXCEPT !.pc = "loadChild"]
              [] OTHER -> [s EXCEPT !.pc = "guard"]

\* the calls that build the seeded store
SeedCalls == <<"createEvent", "upsertEventTask", "upsertEventGuest">>

\* how many requests a run of the workload starts
CallBudget ==
    CASE mode = "seq" -> MaxCalls
      [] mode = "conc" -> MaxOverlap
      [] OTHER -> Len(SeedCalls)

Call(p) ==
    /\ req[p].pc = "idle"
    /\ calls < CallBudget
    /\ mode # "conc" => p = FirstSlot
    /\ \E op \in Ops, user \in Callers :
         \E raw \in RawInputs(op) :
            /\ WithinIds(op, raw)
            /\ req' = [req EXCEPT ![p] = Begin(op, user, raw)]
            /\ uuids' = IF req'[p].pc = "insertEvent"
                          THEN [uuids EXCEPT !.event = @ + 1] ELSE uuids
    /\ calls' = calls + 1
    /\ UNCHANGED <<store, clock, fkEnforced, mode>>

(***************************************************************************)
(* The records and update sets the handlers build.                         *)
(***************************************************************************)
DateKeys == {"startDateTime", "endDateTime"}

\* EventUpdates that always writes a status, "planning" when none is given
EventUpdatesDefaultStatus(input, now) ==
    [k \in {"updatedAt", "status"} \cup {f \in EventFieldKeys : input[f] # Undefined} |->
        IF k = "updatedAt" THEN Some(now)
        ELSE IF k = "status" THEN Coalesce(input.status, Some("planning"))
        ELSE IF k \in DateKeys THEN parseOptionalDate(input[k])
        ELSE input[k]]

\* EventUpdates that writes status "cancelled" when the input has no status
EventUpdatesResetStatus(input, now) ==
    [k \in {"updatedAt", "status"} \cup {f \in EventFieldKeys : input[f] # Undefined} |->
        IF k = "updatedAt" THEN Some(now)
        ELSE IF k = "status" THEN Coalesce(input.status, Some("cancelled"))
        ELSE IF k \in DateKeys THEN parseOptionalDate(input[k])
        ELSE input[k]]

\* EventUpdates that stamps createdAt along with updatedAt
EventUpdatesStampCreated(input, now) ==
    [k \in {"updatedAt", "createdAt"} \cup {f \in EventFieldKeys : input[f] # Undefined} |->
        IF k \in {"updatedAt", "createdAt"} THEN Some(now)
        ELSE IF k \in DateKeys THEN parseOptionalDate(input[k])
        ELSE input[k]]

\* updateEvent's `updates`: updatedAt, and a key for each field of the input that is
\* not undefined
EventUpdates(input, now) ==
    [k \in {"updatedAt"} \cup {f \in EventFieldKeys : input[f] # Undefined} |->
        IF k = "updatedAt" THEN Some(now)
        ELSE IF k \in DateKeys THEN parseOptionalDate(input[k])
        ELSE input[k]]

\* TaskUpdates that stamps createdAt as the create path does
TaskUpdatesStampCreated(input, existing, now) ==
    [title |-> input.title,
     description |-> input.description,
     dueDate |-> parseOptionalDate(input.dueDate),
     status |-> Coalesce(input.status, existing.status),
     priority |-> input.priority,
     userId |-> input.userId,
     createdAt |-> Some(now),
     updatedAt |-> Some(now)]

TaskUpdates(input, existing, now) ==
    [title |-> input.title,
     description |-> input.description,
     dueDate |-> parseOptionalDate(input.dueDate),
     status |-> Coalesce(input.status, existing.status),
     priority |-> input.priority,
     userId |-> input.userId,
     updatedAt |-> Some(now)]

\* GuestUpdates that takes rsvpStatus from the wrong field
GuestUpdatesWrongRsvp(input) ==
    [name |-> input.name,
     email |-> input.email,
     phone |-> input.phone,
     rsvpStatus |-> input.notes,
     notes |-> input.notes,
     invitedAt |-> parseOptionalDate(input.invitedAt),
     respondedAt |-> parseOptionalDate(input.respondedAt)]

GuestUpdates(input) ==
    [name |-> input.name,
     email |-> input.email,
     phone |-> input.phone,
     rsvpStatus |-> input.rsvpStatus,
     notes |-> input.notes,
     invitedAt |-> parseOptionalDate(input.invitedAt),
     respondedAt |-> parseOptionalDate(input.respondedAt)]

\* NewTask that writes the row's own id where the event's id belongs
NewTaskMisfiled(event, input, id, now) ==
    [id |-> Some(id),
     eventId |-> Some(id),
     userId |-> input.userId,
     title |-> input.title,
     description |-> input.description,
     dueDate |-> parseOptionalDate(input.dueDate),
     status |-> Coalesce(input.status, Some("todo")),
     priority |-> input.priority,
     createdAt |-> Some(now),
     updatedAt |-> Some(now)]

NewTask(event, input, id, now) ==
    [id |-> Some(id),
     eventId |-> event.id,
     userId |-> input.userId,
     title |-> input.title,
     description |-> input.description,
     dueDate |-> parseOptionalDate(input.dueDate),
     status |-> Coalesce(input.status, Some("todo")),
     priority |-> input.priority,
     createdAt |-> Some(now),
     updatedAt |-> Some(now)]

NewGuest(event, input, id, now) ==
    [id |-> Some(id),
     eventId |-> event.id,
     name |-> input.name,
     email |-> input.email,
     phone |-> input.phone,
     rsvpStatus |-> input.rsvpStatus,
     notes |-> input.notes,
     invitedAt |-> parseOptionalDate(input.invitedAt),
     respondedAt |-> parseOptionalDate(input.respondedAt),
     createdAt |-> Some(now)]

ChildTable(kind) == IF kind = "task" THEN EventTasks ELSE EventGuests

SetChildTable(kind, t) ==
    IF kind = "task"
    THEN EventTasks' = t /\ UNCHANGED EventGuests
    ELSE EventGuests' = t /\ UNCHANGED EventTasks

\* the key of the response's data: { task } or { guest }
DataOf(kind, row) == IF kind = "task" THEN [task |-> row] ELSE [guest |-> row]

(***************************************************************************)
(* getEventForUser: the ownership check every handler awaits.              *)
(***************************************************************************)
\* the event id the handler passes: input.id, input.eventId, or the loaded child's
GuardEventId(r) ==
    IF IsUpsert(r.op) THEN Val(r.input.eventId)
    ELSE IF IsChildDelete(r.op) THEN Val(Val(r.existing).eventId)
    ELSE Val(r.input.id)

\* where the handler goes once the guard returned the event
Authorized(r, event) ==
    LET s == [r EXCEPT !.event = Some(event)] IN
    CASE r.op = "deleteEvent" -> [s EXCEPT !.pc = "deleteEvent"]
      [] r.op = "getEventWithDetails" -> [s EXCEPT !.pc = "details"]
      [] IsChildDelete(r.op) -> [s EXCEPT !.pc = "deleteChild"]
      [] OTHER -> [s EXCEPT !.pc = "stamp"]

\* Owns without the comparison: every signed-in user passes
OwnsAnyone(event, userId) == TRUE

\* event.ownerUserId === userId
Owns(event, userId) == event.ownerUserId = Some(userId)

GuardOutcome(r, rows) ==
    IF rows = {} THEN Respond(r, "NOT_FOUND", NoObject)
    ELSE LET event == CHOOSE e \in rows : TRUE IN
         IF ~Owns(event, Val(r.user)) THEN Respond(r, "FORBIDDEN", NoObject)
         ELSE Authorized(r, event)

getEventForUser(p) ==
    /\ req[p].pc = "guard"
    /\ req' = [req EXCEPT ![p] =
                  GuardOutcome(Executed(req[p]), SelectById(Events, GuardEventId(req[p])))]
    /\ UNCHANGED <<store, clock, uuids, fkEnforced, calls, mode>>

(***************************************************************************)
(* createEvent, updateEvent, deleteEvent, listMyEvents, getEventWithDetails*)
(***************************************************************************)
InsertEvent(p) ==
    /\ req[p].pc = "insertEvent"
    /\ Events' = Insert(Events, req[p].row)
    /\ req' = [req EXCEPT ![p] = Respond(Executed(@), "OK", [event |-> req[p].row])]
    /\ UNCHANGED <<EventTasks, EventGuests, clock, uuids, fkEnforced, calls, mode>>

\* after the guard: const now = new Date(), then the update set or the new row
Stamp(p) ==
    /\ req[p].pc = "stamp"
    /\ LET r == req[p]
           kind == ChildKind(r.op)
           id == IF kind = "task" THEN TaskIdSeq[uuids.task + 1]
                                  ELSE GuestIdSeq[uuids.guest + 1]
       IN IF r.op = "updateEvent"
          THEN /\ req' = [req EXCEPT ![p] =
                            [r EXCEPT !.now = clock, !.pc = "updateEvent",
                                      !.updates = EventUpdates(r.input, clock)]]
               /\ UNCHANGED uuids
          ELSE IF Truthy(r.input.id)
          THEN /\ req' = [req EXCEPT ![p] = [r EXCEPT !.now = clock, !.pc = "loadExisting"]]
               /\ UNCHANGED uuids
          ELSE /\ req' = [req EXCEPT ![p] =
                            [r EXCEPT !.now = clock, !.pc = "insertChild",
                                      !.row = IF kind = "task"
                                              THEN NewTask(Val(r.event), r.input, id, clock)
                                              ELSE NewGuest(Val(r.event), r.input, id, clock)]]
               /\ uuids' = [uuids EXCEPT ![kind] = @ + 1]
    /\ UNCHANGED <<store, clock, fkEnforced, calls, mode>>

UpdateEvent(p) ==
    /\ req[p].pc = "updateEvent"
    /\ Events' = Update(Events, Val(req[p].input.id), req[p].updates)
    /\ req' = [req EXCEPT ![p] =
                  Respond(Executed(@), "OK",
                          [event |-> Spread(Val(req[p].event), req[p].updates)])]
    /\ UNCHANGED <<EventTasks, EventGuests, clock, uuids, fkEnforced, calls, mode>>

\* the store refuses to delete a row that others reference, when it enforces references
DeleteEvent(p) ==
    /\ req[p].pc = "deleteEvent"
    /\ LET id == Val(req[p].input.id) IN
       IF fkEnforced /\ id \in DOMAIN Events /\ Referenced(id)
       THEN /\ req' = [req EXCEPT ![p] =
                          Respond(Executed(@), "INTERNAL_SERVER_ERROR", NoObject)]
            /\ UNCHANGED Events
       ELSE /\ Events' = DeleteById(Events, id)
            /\ req' = [req EXCEPT ![p] = [Executed(@) EXCEPT !.pc = "deleteTasks"]]
    /\ UNCHANGED <<EventTasks, EventGuests, clock, uuids, fkEnforced, calls, mode>>

DeleteTasks(p) ==
    /\ req[p].pc = "deleteTasks"
    /\ EventTasks' = DeleteByEvent(EventTasks, Val(req[p].input.id))
    /\ req' = [req EXCEPT ![p] = [Executed(@) EXCEPT !.pc = "deleteGuests"]]
    /\ UNCHANGED <<Events, EventGuests, clock, uuids, fkEnforced, calls, mode>>

DeleteGuests(p) ==
    /\ req[p].pc = "deleteGuests"
    /\ EventGuests' = DeleteByEvent(EventGuests, Val(req[p].input.id))
    /\ req' = [req EXCEPT ![p] = Respond(Executed(@), "OK", NoObject)]
    /\ UNCHANGED <<Events, EventTasks, clock, uuids, fkEnforced, calls, mode>>

\* StatusFilter without the owner comparison
StatusFilterAnyOwner(r, e) == Truthy(r.input.status) => e.status = r.input.status

\* and(eq(ownerUserId, user.id), eq(status, input.status)) or eq(ownerUserId, user.id)
StatusFilter(r, e) ==
    IF Truthy(r.input.status)
    THEN e.ownerUserId = r.user /\ e.status = r.input.status
    ELSE e.ownerUserId = r.user

ListMyEvents(p) ==
    /\ req[p].pc = "list"
    /\ LET events == {Events[i] : i \in {j \in DOMAIN Events : StatusFilter(req[p], Events[j])}}
       IN req' = [req EXCEPT ![p] =
                     Respond(Executed(@), "OK",
                             [items |-> events, total |-> Cardinality(events)])]
    /\ UNCHANGED <<store, clock, uuids, fkEnforced, calls, mode>>

\* Promise.all of two selects: they execute in either order
Detail(p, key, rows) ==
    /\ req[p].pc = "details"
    /\ key \notin DOMAIN req[p].data
    /\ LET r == Executed(req[p])
           data == r.data @@ (key :> rows)
       IN req' = [req EXCEPT ![p] =
                     IF DOMAIN data = {"tasks", "guests"}
                     THEN Respond(r, "OK", data @@ [event |-> Val(r.event)])
                     ELSE [r EXCEPT !.data = data]]
    /\ UNCHANGED <<store, clock, uuids, fkEnforced, calls, mode>>

SelectTasks(p) == Detail(p, "tasks", SelectByEvent(EventTasks, Val(req[p].input.id)))

SelectGuests(p) == Detail(p, "guests", SelectByEvent(EventGuests, Val(req[p].input.id)))

(***************************************************************************)
(* upsertEventTask / upsertEventGuest, deleteEventTask / deleteEventGuest  *)
(***************************************************************************)
\* Moved without the comparison: no upsert is refused
NeverMoved(existing, event) == FALSE

\* the child's event is not the authorized one
Moved(existing, event) == existing.eventId # event.id

ExistingOutcome(r, rows) ==
    IF rows = {} THEN Respond(r, "NOT_FOUND", NoObject)
    ELSE LET existing == CHOOSE x \in rows : TRUE IN
         IF Moved(existing, Val(r.event)) THEN Respond(r, "FORBIDDEN", NoObject)
         ELSE [r EXCEPT !.existing = Some(existing), !.pc = "updateChild",
                        !.updates = IF ChildKind(r.op) = "task"
                                    THEN TaskUpdates(r.input, existing, r.now)
                                    ELSE GuestUpdates(r.input)]

LoadExisting(p) ==
    /\ req[p].pc = "loadExisting"
    /\ req' = [req EXCEPT ![p] =
                  ExistingOutcome(Executed(req[p]),
                      SelectById(ChildTable(ChildKind(req[p].op)), Val(req[p].input.id)))]
    /\ UNCHANGED <<store, clock, uuids, fkEnforced, calls, mode>>

UpdateChild(p) ==
    /\ req[p].pc = "updateChild"
    /\ LET r == req[p]
           kind == ChildKind(r.op)
       IN /\ SetChildTable(kind, Update(ChildTable(kind), Val(r.input.id), r.updates))
          /\ req' = [req EXCEPT ![p] =
                        Respond(Executed(r), "OK",
                                DataOf(kind, Spread(Val(r.existing), r.updates)))]
    /\ UNCHANGED <<Events, clock, uuids, fkEnforced, calls, mode>>

\* the store refuses a row whose eventId names no event, when it enforces references
InsertChild(p) ==
    /\ req[p].pc = "insertChild"
    /\ LET r == req[p]
           kind == ChildKind(r.op)
       IN IF fkEnforced /\ Val(r.row.eventId) \notin DOMAIN Events
          THEN /\ req' = [req EXCEPT ![p] =
                             Respond(Executed(r), "INTERNAL_SERVER_ERROR", NoObject)]
               /\ UNCHANGED <<EventTasks, EventGuests>>
          ELSE /\ SetChildTable(kind, Insert(ChildTable(kind), r.row))
               /\ req' = [req EXCEPT ![p] = Respond(Executed(r), "OK", DataOf(kind, r.row))]
    /\ UNCHANGED <<Events, clock, uuids, fkEnforced, calls, mode>>

LoadOutcome(r, rows) ==
    IF rows = {} THEN Respond(r, "NOT_FOUND", NoObject)
    ELSE [r EXCEPT !.existing = Some(CHOOSE x \in rows : TRUE), !.pc = "guard"]

\* deleteEventTask / deleteEventGuest: the row is loaded by the id given
LoadChild(p) ==
    /\ req[p].pc = "loadChild"
    /\ req' = [req EXCEPT ![p] =
                  LoadOutcome(Executed(req[p]),
                      SelectById(ChildTable(ChildKind(req[p].op)), Val(req[p].input.id)))]
    /\ UNCHANGED <<store, clock, uuids, fkEnforced, calls, mode>>

DeleteChild(p) ==
    /\ req[p].pc = "deleteChild"
    /\ LET kind == ChildKind(req[p].op) IN
       SetChildTable(kind, DeleteById(ChildTable(kind), Val(req[p].input.id)))
    /\ req' = [req EXCEPT ![p] = Respond(Executed(@), "OK", NoObject)]
    /\ UNCHANGED <<Events, clock, uuids, fkEnforced, calls, mode>>

(***************************************************************************)
(* The system.                                                             *)
(***************************************************************************)
\* the client has its response; the slot serves the next request
Return(p) ==
    /\ req[p].pc = "done"
    /\ req' = [req EXCEPT ![p] = IdleReq]
    /\ UNCHANGED <<store, clock, uuids, fkEnforced, calls, mode>>

Tick ==
    /\ clock < MaxClock
    /\ clock' = clock + 1
    /\ UNCHANGED <<store, uuids, fkEnforced, req, calls, mode>>

EmptyTable == <<>>

\* the store after construction
FreshStore ==
    /\ Events = EmptyTable
    /\ EventTasks = EmptyTable
    /\ EventGuests = EmptyTable
    /\ uuids = [event |-> 0, task |-> 0, guest |-> 0]
    /\ clock = 0

\* The store that three calls by u1 leave behind: createEvent(Party), then
\* upsertEventTask and upsertEventGuest on that event (under FreshSpec, SeedStore is
\* reached from FreshStore and BusyStore from SeedStore).
SeedEvent == NewEvent(SeedOwner, ParseInput("createEvent", Party), EventIdSeq[1], 0)

SeedTaskInput ==
    WithKeys([NoTaskFields EXCEPT !.title = Some("Book venue")],
             [id |-> Undefined, eventId |-> Some(EventIdSeq[1])])

SeedTask == NewTask(SeedEvent, ParseInput("upsertEventTask", SeedTaskInput), TaskIdSeq[1], 0)

SeedGuestInput ==
    WithKeys([NoGuestFields EXCEPT
                 !.name = Some("Ana"), !.email = Some("ana@example.com"),
                 !.rsvpStatus = Some("invited")],
             [id |-> Undefined, eventId |-> Some(EventIdSeq[1])])

SeedGuest == NewGuest(SeedEvent, SeedGuestInput, GuestIdSeq[1], 0)

SeedStore ==
    /\ Events = Insert(EmptyTable, SeedEvent)
    /\ EventTasks = Insert(EmptyTable, SeedTask)
    /\ EventGuests = Insert(EmptyTable, SeedGuest)
    /\ uuids = [event |-> 1, task |-> 1, guest |-> 1]
    /\ clock = 0

\* The seeded store after three more calls, by u2: createEvent(Launch), then
\* upsertEventTask and upsertEventGuest on that second event.
OtherOwner == {"u2"}

OtherEvent == NewEvent(OtherOwner, ParseInput("createEvent", Launch), EventIdSeq[2], 0)

OtherTaskInput ==
    WithKeys([NoTaskFields EXCEPT
                 !.title = Some("Send invites"), !.description = Some("all"),
                 !.dueDate = Some("2026-01-01T10:00:00Z"), !.status = Some("done"),
                 !.priority = Some("high"), !.userId = Some("u2")],
             [id |-> Undefined, eventId |-> Some(EventIdSeq[2])])

OtherTask == NewTask(OtherEvent, ParseInput("upsertEventTask", OtherTaskInput), TaskIdSeq[2], 0)

OtherGuestInput ==
    WithKeys([NoGuestFields EXCEPT !.name = Some("Ana"), !.rsvpStatus = Some("going")],
             [id |-> Undefined, eventId |-> Some(EventIdSeq[2])])

OtherGuest == NewGuest(OtherEvent, OtherGuestInput, GuestIdSeq[2], 0)

BusyStore ==
    /\ Events = Insert(Insert(EmptyTable, SeedEvent), OtherEvent)
    /\ EventTasks = Insert(Insert(EmptyTable, SeedTask), OtherTask)
    /\ EventGuests = Insert(Insert(EmptyTable, SeedGuest), OtherGuest)
    /\ uuids = [event |-> 2, task |-> 2, guest |-> 2]
    /\ clock = 0

InitWith(m) ==
    /\ fkEnforced \in BOOLEAN
    /\ req = [p \in Procs |-> IdleReq]
    /\ calls = 0
    /\ mode = m

\* one request at a time, on the fresh store or on a seeded one
Init == (FreshStore \/ SeedStore \/ BusyStore) /\ InitWith("seq")

\* overlapping requests of the seeded event's owner
ConcInit == SeedStore /\ InitWith("conc")

\* three calls from the fresh store, or three more from the seeded one
FreshInit == (FreshStore \/ SeedStore) /\ InitWith("fresh")

Next ==
    \/ Tick
    \/ \E p \in Procs :
        \/ Call(p)
        \/ getEventForUser(p)
        \/ InsertEvent(p)
        \/ Stamp(p)
        \/ UpdateEvent(p)
        \/ DeleteEvent(p)
        \/ DeleteTasks(p)
        \/ DeleteGuests(p)
        \/ ListMyEvents(p)
        \/ SelectTasks(p)
        \/ SelectGuests(p)
        \/ LoadExisting(p)
        \/ UpdateChild(p)
        \/ InsertChild(p)
        \/ LoadChild(p)
        \/ DeleteChild(p)
        \/ Return(p)

Spec == Init /\ [][Next]_vars

ConcSpec == ConcInit /\ [][Next]_vars

FreshSpec == FreshInit /\ [][Next]_vars

(***************************************************************************)
(* Properties.                                                             *)
(***************************************************************************)
Running(r) == r.pc \notin {"idle", "done"}
Done(r) == r.pc = "done"
Succeeded(r) == r.pc = "done" /\ r.code = "OK"
Stepped(p) == req'[p] # req[p]

GuardedOps ==
    {"updateEvent", "deleteEvent", "getEventWithDetails", "upsertEventTask",
     "upsertEventGuest", "deleteEventTask", "deleteEventGuest"}

\* the events whose owner decides request r: the one its input names, or for a child
\* delete the one stored on the row it names
TargetEvents(r) ==
    IF IsUpsert(r.op) THEN r.input.eventId
    ELSE IF IsChildDelete(r.op)
         THEN IF r.pc = "loadChild"
              THEN UNION {row.eventId :
                            row \in SelectById(ChildTable(ChildKind(r.op)), Val(r.input.id))}
              ELSE Val(r.existing).eventId
    ELSE r.input.id

\* r is a request on an event that exists and that its actor does not own
Foreign(r) ==
    /\ Running(r)
    /\ r.op \in GuardedOps
    /\ \E e \in TargetEvents(r) \cap DOMAIN Events : Events[e].ownerUserId # r.user

C1_NeverPastGuard ==
    \A p \in Procs : Foreign(req[p]) => req[p].pc \in {"guard", "loadChild"}

C1_Step ==
    \A p \in Procs :
        Foreign(req[p]) /\ Stepped(p) =>
            /\ UNCHANGED store
            /\ req'[p].pc \in {"guard", "done"}
            /\ Done(req'[p]) => req'[p].code = "FORBIDDEN" /\ req'[p].data = NoObject

\* C1: a request (one its schema accepts) by a signed-in actor on an event of the store
\* that the actor does not own - updateEvent, deleteEvent, getEventWithDetails, an upsert
\* with that eventId, a child delete of a row stored under it - never gets past the
\* ownership check: each of its steps leaves Events, EventTasks and EventGuests as they
\* were, and it ends FORBIDDEN with no data.
C1_NonOwnerForbidden == [][C1_Step]_vars /\ []C1_NeverPastGuard

\* a non-owner's deleteEventTask / deleteEventGuest was refused; the row and its event
\* are still there
C1_Witness ==
    \E p \in Procs :
        /\ Done(req[p]) /\ req[p].code = "FORBIDDEN" /\ IsChildDelete(req[p].op)
        /\ \E row \in SelectById(ChildTable(ChildKind(req[p].op)), Val(req[p].input.id)) :
              /\ row.eventId \subseteq DOMAIN Events
              /\ Events[Val(row.eventId)].ownerUserId # req[p].user

\* the children of event id
ChildrenOf(table, id) == {i \in DOMAIN table : table[i].eventId = Some(id)}

\* table t2 has the rows of t whose event is not `id`, as they were, and no new row
OthersKept(t, t2, id) ==
    /\ DOMAIN t2 \ ChildrenOf(t2, id) = DOMAIN t \ ChildrenOf(t, id)
    /\ \A i \in DOMAIN t \ ChildrenOf(t, id) : t2[i] = t[i]

C2_Gone ==
    \A p \in Procs :
        Succeeded(req[p]) /\ req[p].op = "deleteEvent" =>
            /\ Val(req[p].input.id) \notin DOMAIN Events
            /\ ChildrenOf(EventTasks, Val(req[p].input.id)) = {}
            /\ ChildrenOf(EventGuests, Val(req[p].input.id)) = {}

C2_Frame ==
    \A p \in Procs :
        req[p].op = "deleteEvent" /\ Running(req[p]) /\ Stepped(p) =>
            LET id == Val(req[p].input.id) IN
            /\ DOMAIN Events' \ {id} = DOMAIN Events \ {id}
            /\ \A i \in DOMAIN Events \ {id} : Events'[i] = Events[i]
            /\ OthersKept(EventTasks, EventTasks', id)
            /\ OthersKept(EventGuests, EventGuests', id)

\* C2: with one request at a time, when deleteEvent(id) has returned success the store
\* holds no Event with that id and no Task or Guest row with that eventId, and no step of
\* the call touched an Event, Task or Guest of another event.
C2_DeleteEventCascades == []C2_Gone /\ [][C2_Frame]_vars

\* deleteEvent, the first call on the seeded store, succeeded: the event, its task and
\* its guest are gone
C2_Witness ==
    \E p \in Procs :
        /\ Succeeded(req[p]) /\ req[p].op = "deleteEvent"
        /\ uuids.task >= 1 /\ uuids.guest >= 1 /\ calls = 1
        /\ EventTasks = EmptyTable /\ EventGuests = EmptyTable

NoDeleteEventRunning ==
    \A p \in Procs : ~(req[p].op = "deleteEvent" /\ Running(req[p]))

\* C3: whenever no deleteEvent is in progress, every Task row and every Guest row names
\* an Event of the store, under any interleaving of overlapping requests.
C3_NoOrphans ==
    NoDeleteEventRunning =>
        /\ \A i \in DOMAIN EventTasks : EventTasks[i].eventId \subseteq DOMAIN Events
        /\ \A i \in DOMAIN EventGuests : EventGuests[i].eventId \subseteq DOMAIN Events

\* the row an upsert's id names, if the table has it
NamedRows(r) == SelectById(ChildTable(ChildKind(r.op)), Val(r.input.id))

\* r is an upsert by the owner of the event it names, with the id of a row of another
\* event
CrossEvent(r) ==
    /\ Running(r) /\ IsUpsert(r.op) /\ Truthy(r.input.id)
    /\ r.input.eventId \subseteq DOMAIN Events
    /\ Events[Val(r.input.eventId)].ownerUserId = r.user
    /\ \E row \in NamedRows(r) : row.eventId # r.input.eventId

C4_NeverWrites ==
    \A p \in Procs : CrossEvent(req[p]) => req[p].pc \in {"guard", "stamp", "loadExisting"}

C4_Step ==
    \A p \in Procs :
        CrossEvent(req[p]) /\ Stepped(p) =>
            /\ UNCHANGED store
            /\ req'[p].pc \in {"stamp", "loadExisting", "done"}
            /\ Done(req'[p]) => req'[p].code = "FORBIDDEN" /\ req'[p].data = NoObject

\* C4: with one request at a time, an upsert by the owner of event A with eventId = A and
\* the id of a row stored under another event B ends FORBIDDEN with no data, and none of
\* its steps changes a row of any table; who owns B plays no part.
C4_NoReparenting == [][C4_Step]_vars /\ []C4_NeverWrites

\* the refused caller owns both events
C4_Witness ==
    \E p \in Procs :
        /\ Done(req[p]) /\ req[p].code = "FORBIDDEN" /\ IsUpsert(req[p].op)
        /\ req[p].input.eventId \subseteq DOMAIN Events
        /\ Events[Val(req[p].input.eventId)].ownerUserId = req[p].user
        /\ \E row \in NamedRows(req[p]) :
              /\ row.eventId # req[p].input.eventId
              /\ row.eventId \subseteq DOMAIN Events
              /\ Events[Val(row.eventId)].ownerUserId = req[p].user

IdentityKept(t, t2) ==
    \A i \in DOMAIN t \cap DOMAIN t2 :
        /\ t2[i].id = t[i].id
        /\ t2[i].eventId = t[i].eventId
        /\ t2[i].createdAt = t[i].createdAt

\* C5: no step changes the id, the eventId or the createdAt of a Task or Guest row that
\* the step leaves in its table.
C5_ChildIdentityKept ==
    [][IdentityKept(EventTasks, EventTasks') /\ IdentityKept(EventGuests, EventGuests')]_vars

\* an upsert with an id updated a task after the clock had moved on
C5_Witness ==
    \E p \in Procs :
        /\ Succeeded(req[p]) /\ req[p].op = "upsertEventTask" /\ Truthy(req[p].input.id)
        /\ \E row \in NamedRows(req[p]) : row.updatedAt # row.createdAt

NoFieldSupplied(raw) == \A k \in EventFieldKeys : raw[k] = Undefined

C6_Step ==
    \A p \in Procs :
        /\ req[p].pc = "idle" /\ req'[p].pc # "idle"
        /\ req'[p].op = "updateEvent" /\ NoFieldSupplied(req'[p].raw)
        => /\ Done(req'[p]) /\ req'[p].code = "BAD_REQUEST" /\ req'[p].data = NoObject
           /\ req'[p].stmts = 0
           /\ UNCHANGED store

\* C6: updateEvent called with an id and none of the nine updatable fields is answered
\* BAD_REQUEST in the step that receives it, having executed no store statement and
\* changed no table, whoever calls and whether the event exists.
C6_EmptyUpdateRejected == [][C6_Step]_vars

\* an empty update from a caller who is not signed in, on an event that is gone
C6_Witness ==
    \E p \in Procs :
        /\ Done(req[p]) /\ req[p].op = "updateEvent" /\ NoFieldSupplied(req[p].raw)
        /\ req[p].code = "BAD_REQUEST" /\ req[p].user = Undefined
        /\ Val(req[p].raw.id) \notin DOMAIN Events

\* C7: of the deleteEventTask (deleteEventGuest) calls for one id, at most one returns
\* success, overlapping calls included.
C7_AtMostOneDelete ==
    \A p, q \in Procs :
        /\ p # q
        /\ Succeeded(req[p]) /\ Succeeded(req[q])
        /\ IsChildDelete(req[p].op) /\ req[q].op = req[p].op
        => req[q].input.id # req[p].input.id

C8_Step ==
    \A p \in Procs :
        req[p].pc = "updateChild" /\ req[p].op = "upsertEventTask" /\ Stepped(p) =>
            LET id == Val(req[p].input.id)
                expected == IF req[p].raw.status = Undefined
                            THEN EventTasks[id].status ELSE req[p].raw.status
            IN /\ Succeeded(req'[p])
               /\ EventTasks'[id].status = expected
               /\ req'[p].data.task.status = expected

\* C8: with one request at a time, an upsertEventTask by the owner with the id of a task
\* of the event leaves the task's status as it was when no status is supplied, and sets
\* it to the supplied status otherwise, in the stored row and in the returned task.
C8_StatusKept == [][C8_Step]_vars

\* the follow-up call of the scenario as written: the guest's id and rsvpStatus "going",
\* no eventId, no name
RsvpOnlyCall(r) ==
    /\ r.op = "upsertEventGuest"
    /\ r.raw = WithKeys(RsvpOnly, [id |-> r.raw.id, eventId |-> Undefined])

\* C9 as claimed: the call carrying only the id and rsvpStatus "going" of a guest created
\* with a name and rsvpStatus "invited" succeeds and the guest is "going".
C9_RsvpOnlySucceeds ==
    \A p \in Procs :
        /\ Done(req[p]) /\ RsvpOnlyCall(req[p])
        /\ \E row \in SelectById(EventGuests, Val(req[p].raw.id)) :
              /\ row.name # Undefined /\ row.rsvpStatus = Some("invited")
              /\ row.eventId \subseteq DOMAIN Events
              /\ Events[Val(row.eventId)].ownerUserId = req[p].user
        => /\ req[p].code = "OK"
           /\ \A row \in SelectById(EventGuests, Val(req[p].raw.id)) :
                 row.rsvpStatus = Some("going") /\ row.name # Undefined

\* r is the follow-up call with the guest's eventId and name added, by the event's owner,
\* on a guest that is "invited"
RsvpCase(r) ==
    /\ Running(r) /\ r.op = "upsertEventGuest" /\ Truthy(r.input.id)
    /\ r.raw.rsvpStatus = Some("going")
    /\ r.input.eventId \subseteq DOMAIN Events
    /\ Events[Val(r.input.eventId)].ownerUserId = r.user
    /\ \E row \in NamedRows(r) :
          /\ row.eventId = r.input.eventId
          /\ row.name = r.raw.name
          /\ row.rsvpStatus = Some("invited")

C9_Step ==
    \A p \in Procs :
        /\ RsvpCase(req[p]) /\ Stepped(p)
           => IF Done(req'[p])
              THEN LET id == Val(req[p].input.id) IN
                   /\ req'[p].code = "OK"
                   /\ EventGuests'[id].rsvpStatus = Some("going")
                   /\ EventGuests'[id].name = EventGuests[id].name
                   /\ req'[p].data.guest.rsvpStatus = Some("going")
                   /\ req'[p].data.guest.name = EventGuests[id].name
              ELSE UNCHANGED store
        /\ req[p].pc = "idle" /\ req'[p].pc # "idle" /\ RsvpOnlyCall(req'[p])
           => /\ Done(req'[p]) /\ req'[p].code = "BAD_REQUEST"
              /\ UNCHANGED store

\* C9 as amended: with one request at a time, the follow-up upsertEventGuest by the owner
\* that carries the guest's id, its eventId, its name and rsvpStatus "going" succeeds,
\* sets rsvpStatus to "going" and leaves the name as it was; the call that carries only
\* the id and the rsvpStatus is answered BAD_REQUEST and changes nothing.
C9_RsvpUpdate == [][C9_Step]_vars

\* the guest created with an email and "invited" is now "going", by an upsert with its id
C9_Witness ==
    \E p \in Procs :
        /\ Succeeded(req[p]) /\ req[p].op = "upsertEventGuest" /\ Truthy(req[p].input.id)
        /\ req[p].raw.rsvpStatus = Some("going")
        /\ \E row \in NamedRows(req[p]) :
              /\ row.rsvpStatus = Some("going") /\ row.name = Some("Ana")
              /\ row.email = Some("ana@example.com")

\* what the store holds for a supplied field: the value, a date string as its instant
Supplied(raw, k) == IF k \in DateKeys THEN Some(NewDate(Val(raw[k]))) ELSE raw[k]

C10_Step ==
    \A p \in Procs :
        req[p].pc = "updateEvent" /\ Stepped(p) =>
            LET id == Val(req[p].input.id)
                raw == req[p].raw
            IN /\ Succeeded(req'[p])
               /\ DOMAIN Events' = DOMAIN Events
               /\ \A k \in EventFieldKeys :
                     Events'[id][k] = IF raw[k] # Undefined THEN Supplied(raw, k)
                                      ELSE Events[id][k]
               /\ \A k \in {"id", "ownerUserId", "createdAt"} : Events'[id][k] = Events[id][k]
               /\ Events'[id].updatedAt = Some(req[p].now)
               /\ req'[p].data = [event |-> Events'[id]]
               /\ \A i \in DOMAIN Events \ {id} : Events'[i] = Events[i]
               /\ UNCHANGED <<EventTasks, EventGuests>>

\* C10: with one request at a time, the update statement of updateEvent gives each
\* supplied field the supplied value and updatedAt the handler's timestamp, leaves every
\* other column of the event (id, ownerUserId, createdAt, the fields not supplied) as it
\* was, returns the event as stored, and changes no other Event, Task or Guest row.
C10_UpdateEventFrame == [][C10_Step]_vars

\* an update of title and status on an event that has a description
C10_Witness ==
    \E p \in Procs :
        /\ Succeeded(req[p]) /\ req[p].op = "updateEvent"
        /\ req[p].raw.description = Undefined /\ req[p].raw.status = Some("done")
        /\ Events[Val(req[p].input.id)].description = Some("at noon")
        /\ Events[Val(req[p].input.id)].status = Some("done")

\* the ids crypto.randomUUID() has produced for rows of `kind`
IdsDrawn(kind) == IF kind = "task" THEN KnownTaskIds ELSE KnownGuestIds

\* r is an upsert without an id, by the owner of the event it names
CreateCase(r) ==
    /\ Running(r) /\ IsUpsert(r.op) /\ r.raw.id = Undefined
    /\ r.raw.eventId \subseteq DOMAIN Events
    /\ Events[Val(r.raw.eventId)].ownerUserId = r.user

C11_Step ==
    \A p \in Procs :
        CreateCase(req[p]) /\ Stepped(p) =>
            LET kind == ChildKind(req[p].op)
                t == ChildTable(kind)
                t2 == IF kind = "task" THEN EventTasks' ELSE EventGuests'
                other == IF kind = "task" THEN <<Events, EventGuests>> ELSE <<Events, EventTasks>>
                other2 == IF kind = "task" THEN <<Events', EventGuests'>>
                                           ELSE <<Events', EventTasks'>>
            IN IF Done(req'[p])
               THEN /\ req'[p].code = "OK"
                    /\ \E id \in DOMAIN t2 \ DOMAIN t :
                          /\ DOMAIN t2 = DOMAIN t \cup {id}
                          /\ t2[id].id = Some(id)
                          /\ t2[id].eventId = req[p].raw.eventId
                          /\ id \in IdsDrawn(kind)
                          /\ req'[p].data = DataOf(kind, t2[id])
                    /\ \A i \in DOMAIN t : t2[i] = t[i]
                    /\ other2 = other
               ELSE /\ UNCHANGED store
                    \* the id drawn is one never drawn before
                    /\ IdsDrawn(kind)' \ IdsDrawn(kind) \subseteq
                          IF req'[p].pc = "insertChild" THEN req'[p].row.id ELSE {}
                    /\ req'[p].pc = "insertChild" =>
                          req'[p].row.id \cap IdsDrawn(kind) = {} /\ req'[p].row.id # {}

\* every row of a child table carries an id that was drawn for that table
C11_IdsFromDraws ==
    /\ \A i \in DOMAIN EventTasks : i \in KnownTaskIds /\ EventTasks[i].id = Some(i)
    /\ \A i \in DOMAIN EventGuests : i \in KnownGuestIds /\ EventGuests[i].id = Some(i)

\* C11: with one request at a time, upsertEventTask / upsertEventGuest without an id, by
\* the owner of the event named, ends OK having added exactly one row: its id was drawn
\* for this call and for no row before it (rows since deleted included), its eventId is the
\* authorized event, it is the row returned, and every row that was there is unchanged, as
\* are the other two tables.
C11_CreateAddsOneRow == [][C11_Step]_vars /\ []C11_IdsFromDraws

\* a task was added to an event that already had one
C11_Witness ==
    \E p \in Procs :
        /\ Succeeded(req[p]) /\ req[p].op = "upsertEventTask" /\ req[p].raw.id = Undefined
        /\ \E i, j \in ChildrenOf(EventTasks, Val(req[p].raw.eventId)) : i # j

\* slot p holds createEvent's response and slot q runs the getEventWithDetails that
\* follows it, by the same actor on the id returned; no other call was made
RoundTrip(p, q) ==
    /\ calls = 2
    /\ Succeeded(req[p]) /\ req[p].op = "createEvent"
    /\ Running(req[q]) /\ req[q].op = "getEventWithDetails"
    /\ req[q].user = req[p].user
    /\ req[q].raw.id = req[p].data.event.id

C12_Step ==
    \A p, q \in Procs :
        RoundTrip(p, q) /\ Stepped(q) =>
            /\ UNCHANGED store
            /\ IF Done(req'[q])
               THEN LET raw == req[p].raw
                        e == req'[q].data.event
                    IN /\ req'[q].code = "OK"
                       /\ DOMAIN req'[q].data = {"event", "tasks", "guests"}
                       /\ \A k \in EventFieldKeys \ {"status"} :
                             e[k] = IF raw[k] = Undefined THEN Undefined
                                    ELSE Supplied(raw, k)
                       /\ e.status = IF raw.status = Undefined THEN Some("planning")
                                     ELSE raw.status
                       /\ e.ownerUserId = req[p].user
                       /\ e.id = req[p].data.event.id
                       /\ e.createdAt = e.updatedAt
                       /\ req'[q].data.tasks = {}
                       /\ req'[q].data.guests = {}
               ELSE req'[q].pc = "details"

\* C12: createEvent(fields) by an actor followed by getEventWithDetails of the returned id
\* by the same actor (the read's statements run after the create has answered) succeeds
\* and returns the event with every supplied field as supplied (a date string as the
\* instant it denotes), the fields not supplied absent, status "planning" when none was
\* supplied, ownerUserId the actor, createdAt equal to updatedAt, and no tasks and no
\* guests.
C12_CreateReadRoundTrip == [][C12_Step]_vars

\* the read that followed the creation of an event with a description and dates has
\* answered
C12_Witness ==
    \E p, q \in Procs :
        /\ calls = 2
        /\ Succeeded(req[p]) /\ req[p].op = "createEvent"
        /\ Succeeded(req[q]) /\ req[q].op = "getEventWithDetails"
        /\ req[q].raw.id = req[p].data.event.id
        /\ req[p].raw.description = Some("at noon")
        /\ req[q].data.event.description = Some("at noon")
        /\ req[q].data.event.endDateTime = Some(1769940000)

\* the events of the store that `user` owns, with status s when a filter s is given
OwnedBy(user, status) ==
    {e \in {Events[i] : i \in DOMAIN Events} :
        e.ownerUserId = user /\ (status # Undefined => e.status = status)}

C13_Step ==
    \A p \in Procs :
        req[p].op = "listMyEvents" /\ Running(req[p]) /\ Stepped(p) =>
            /\ Succeeded(req'[p])
            /\ req'[p].data.items = OwnedBy(req[p].user, req[p].raw.status)
            /\ req'[p].data.total = Cardinality(req'[p].data.items)
            /\ \A e \in req'[p].data.items : e.ownerUserId = req[p].user
            /\ UNCHANGED store

\* C13: listMyEvents by a signed-in actor answers in one statement with exactly the stored
\* Events whose ownerUserId is the actor (and whose status is s when a filter s is given),
\* none owned by anyone else, total being the number of items, and changes no table.
C13_ListOwnEvents == [][C13_Step]_vars

\* a listing that left out an event of the store
C13_Witness ==
    \E p \in Procs :
        /\ Succeeded(req[p]) /\ req[p].op = "listMyEvents"
        /\ req[p].data.total = 1
        /\ \E i \in DOMAIN Events : Events[i] \notin req[p].data.items
        /\ \E i \in DOMAIN Events : Events[i] \in req[p].data.items

\* what each action's schema accepts, stated on the call as the client sent it
WellFormed(op, raw) ==
    CASE op \in {"createEvent", "upsertEventTask"} -> NonEmpty(raw.title)
      [] op = "upsertEventGuest" -> NonEmpty(raw.name) /\ raw.eventId # Undefined
      [] op = "updateEvent" -> ~NoFieldSupplied(raw)
      [] OTHER -> TRUE

C14_Step ==
    \A p \in Procs :
        /\ req[p].pc = "idle" /\ req'[p].pc # "idle"
        /\ req'[p].user = Undefined /\ WellFormed(req'[p].op, req'[p].raw)
        => /\ Done(req'[p]) /\ req'[p].code = "UNAUTHORIZED" /\ req'[p].data = NoObject
           /\ req'[p].stmts = 0
           /\ UNCHANGED store

\* C14: each of the nine actions, called with input its schema accepts and no user on the
\* request context, is answered UNAUTHORIZED in the step that receives it: no store
\* statement was executed, no table changed, and the response carries no data.
C14_NoActorRejected == [][C14_Step]_vars

\* a deleteEvent without a user on an event that has a task: refused, all still there
C14_Witness ==
    \E p \in Procs :
        /\ Done(req[p]) /\ req[p].op = "deleteEvent" /\ req[p].user = Undefined
        /\ req[p].code = "UNAUTHORIZED"
        /\ Val(req[p].raw.id) \in DOMAIN Events
        /\ ChildrenOf(EventTasks, Val(req[p].raw.id)) # {}

\* the rows that table t and its successor t2 both hold agree on column k
ColumnKept(t, t2, k) == \A i \in DOMAIN t \cap DOMAIN t2 : t2[i][k] = t[i][k]

C15_Step ==
    /\ ColumnKept(Events, Events', "ownerUserId")
    /\ ColumnKept(Events, Events', "createdAt")
    /\ ColumnKept(EventTasks, EventTasks', "createdAt")
    /\ ColumnKept(EventGuests, EventGuests', "createdAt")

\* C15: under any sequence of calls, no step changes the ownerUserId or the createdAt of an
\* Event, or the createdAt of a Task or a Guest, while the row is in its table.
C15_CreationColumnsKept == [][C15_Step]_vars

\* an event was updated after the clock had moved on: updatedAt moved, createdAt did not
C15_Witness ==
    \E p \in Procs :
        /\ Succeeded(req[p]) /\ req[p].op = "updateEvent"
        /\ \E e \in SelectById(Events, Val(req[p].raw.id)) :
              /\ e.updatedAt # e.createdAt
              /\ e.createdAt = Some(0)
              /\ e.ownerUserId = req[p].user

\* the two calls made are updateEvent calls on one event: q's update statement has
\* executed, p's is the next statement of p
SecondWriter(p, q) ==
    /\ calls = 2 /\ p # q
    /\ req[p].op = "updateEvent" /\ req[p].pc = "updateEvent"
    /\ Succeeded(req[q]) /\ req[q].op = "updateEvent"
    /\ req[q].raw.id = req[p].raw.id

C16_Step ==
    \A p, q \in Procs :
        SecondWriter(p, q) /\ Stepped(p) =>
            LET id == Val(req[p].raw.id)
                last == req[p].raw
                first == req[q].raw
            IN /\ id \in DOMAIN Events'
               /\ \A k \in EventFieldKeys :
                     Events'[id][k] =
                        IF last[k] # Undefined THEN Supplied(last, k)
                        ELSE IF first[k] # Undefined THEN Supplied(first, k)
                        ELSE Events[id][k]
               /\ \A k \in EventFieldKeys :
                     last[k] = Undefined => Events'[id][k] = Events[id][k]

\* C16: of two updateEvent calls by the owner on one event, overlapping in any way at
\* statement granularity, the one whose update statement executes second leaves each field
\* it supplied at its own value, each field only the other call supplied at the other
\* call's value, and every field neither supplied as it was.
C16_LastWriterWinsPerField == [][C16_Step]_vars

\* the call that wrote last ("Gala", "") had read the event before the other call wrote
\* ("Finale", "done"): its response still shows status "confirmed"
C16_Witness ==
    \E p, q \in Procs :
        /\ calls = 2 /\ p # q
        /\ Succeeded(req[p]) /\ req[p].op = "updateEvent"
        /\ Succeeded(req[q]) /\ req[q].op = "updateEvent"
        /\ req[q].raw.id = req[p].raw.id
        /\ req[p].raw.title = Some("Gala") /\ req[q].raw.title = Some("Finale")
        /\ req[p].data.event.status = Some("confirmed")
        /\ req[q].data.event.description = Some("at noon")
        /\ \E e \in SelectById(Events, Val(req[p].raw.id)) :
              /\ e.title = Some("Gala") /\ e.status = Some("done")
              /\ e.description = Some("")

C17_AtLeastCreated ==
    /\ \A i \in DOMAIN Events : Val(Events[i].updatedAt) >= Val(Events[i].createdAt)
    /\ \A i \in DOMAIN EventTasks :
          Val(EventTasks[i].updatedAt) >= Val(EventTasks[i].createdAt)

\* the rows that table t and its successor t2 both hold have not gone back in updatedAt
NotEarlier(t, t2) ==
    \A i \in DOMAIN t \cap DOMAIN t2 : Val(t2[i].updatedAt) >= Val(t[i].updatedAt)

C17_NeverDecreases == NotEarlier(Events, Events') /\ NotEarlier(EventTasks, EventTasks')

C17_LaterAfterUpdate ==
    \A p \in Procs :
        req[p].pc = "updateEvent" /\ Succeeded(req'[p]) =>
            \A i \in DOMAIN Events' \cap req[p].raw.id :
                Val(Events'[i].updatedAt) > Val(Events'[i].createdAt)

\* C17: with a clock that never goes back, under any interleaving of overlapping requests
\* the updatedAt of every Event and Task is at least its createdAt in every state, no step
\* lowers it, and the step that completes a successful updateEvent leaves the event's
\* updatedAt later than its createdAt.
C17_UpdatedAtMonotone ==
    /\ []C17_AtLeastCreated
    /\ [][C17_NeverDecreases]_vars
    /\ [][C17_LaterAfterUpdate]_vars

\* the rows of table t stored under event id
RowsOf(t, id) == {t[i] : i \in ChildrenOf(t, id)}

C18_Step ==
    \A p \in Procs :
        req[p].op = "getEventWithDetails" /\ Running(req[p]) /\ Stepped(p) =>
            LET id == Val(req[p].raw.id) IN
            /\ UNCHANGED store
            /\ IF id \notin DOMAIN Events
               THEN Done(req'[p]) /\ req'[p].code = "NOT_FOUND" /\ req'[p].data = NoObject
               ELSE Events[id].ownerUserId = req[p].user =>
                       IF Done(req'[p])
                       THEN /\ req'[p].code = "OK"
                            /\ req'[p].data =
                                  [event |-> Events[id],
                                   tasks |-> RowsOf(EventTasks, id),
                                   guests |-> RowsOf(EventGuests, id)]
                       ELSE req'[p].pc = "details"

\* the event ids handed out whose event is not stored and not about to be inserted:
\* the ids of deleted events
GoneEventIds ==
    {id \in KnownEventIds \ DOMAIN Events :
        \A p \in Procs : ~(req[p].pc = "insertEvent" /\ req[p].row.id = Some(id))}

C18_Deleted ==
    \A p \in Procs :
        req[p].op = "deleteEvent" /\ Succeeded(req[p]) => Val(req[p].raw.id) \in GoneEventIds

C18_StaysGone == GoneEventIds \subseteq GoneEventIds'

\* C18: with one request at a time, getEventWithDetails(id) changes no table; called by
\* the owner it succeeds and returns the event, exactly the Task rows and exactly the
\* Guest rows whose eventId is id; and once deleteEvent(id) has succeeded the event never
\* comes back, so every getEventWithDetails(id) by a signed-in actor ends NOT_FOUND.
C18_DetailsExact == [][C18_Step /\ C18_StaysGone]_vars /\ []C18_Deleted

\* the owner got the task and the guest of the event, and not those of the other event
C18_Witness ==
    \E p \in Procs :
        /\ Succeeded(req[p]) /\ req[p].op = "getEventWithDetails"
        /\ req[p].data.tasks # {} /\ req[p].data.guests # {}
        /\ \E i \in DOMAIN EventTasks : EventTasks[i] \notin req[p].data.tasks
        /\ \E i \in DOMAIN EventGuests : EventGuests[i] \notin req[p].data.guests

\* the row a child delete names, as the table holds it
NamedChild(r) == SelectById(ChildTable(ChildKind(r.op)), Val(r.raw.id))

C19_Step ==
    \A p \in Procs :
        IsChildDelete(req[p].op) /\ Running(req[p]) /\ Stepped(p) =>
            LET id == Val(req[p].raw.id)
                kind == ChildKind(req[p].op)
                t == ChildTable(kind)
                t2 == IF kind = "task" THEN EventTasks' ELSE EventGuests'
                other == IF kind = "task" THEN <<Events, EventGuests>> ELSE <<Events, EventTasks>>
                other2 == IF kind = "task" THEN <<Events', EventGuests'>>
                                           ELSE <<Events', EventTasks'>>
            IN \* the only input is the id
               /\ DOMAIN req[p].raw = {"id"}
               \* the row's own event decides
               /\ Succeeded(req'[p]) =>
                     \E row \in NamedChild(req[p]) :
                        /\ row.eventId \subseteq DOMAIN Events
                        /\ Events[Val(row.eventId)].ownerUserId = req[p].user
               /\ \A row \in NamedChild(req[p]) :
                     /\ row.eventId \subseteq DOMAIN Events
                     /\ Events[Val(row.eventId)].ownerUserId = req[p].user
                     => (Done(req'[p]) => req'[p].code = "OK")
               \* exactly that row goes
               /\ IF Succeeded(req'[p])
                  THEN /\ DOMAIN t2 = DOMAIN t \ {id}
                       /\ id \in DOMAIN t
                       /\ \A i \in DOMAIN t2 : t2[i] = t[i]
                       /\ other2 = other
                  ELSE UNCHANGED store

\* C19: with one request at a time, deleteEventTask / deleteEventGuest takes the id alone,
\* succeeds exactly when the caller owns the event whose id is stored on the row with that
\* id, and its successful step removes that row and nothing else: every other Task, every
\* Guest (every other Guest, every Task) and every Event is as it was; until then it
\* changes nothing.
C19_ChildDeleteFrame == [][C19_Step]_vars

\* a task was deleted; another task, the guests and the events are still there
C19_Witness ==
    \E p \in Procs :
        /\ Succeeded(req[p]) /\ req[p].op = "deleteEventTask"
        /\ Val(req[p].raw.id) \notin DOMAIN EventTasks
        /\ DOMAIN EventTasks # {}
        /\ Cardinality(DOMAIN EventGuests) = 2 /\ Cardinality(DOMAIN Events) = 2

====
